---- MODULE Spec2Model ----
(***************************************************************************)
(* A model of the media organizer: the command-line loop of                *)
(* MediaOrganizer.process_media_files (sonex.py) and the background        *)
(* Worker.run of the window (gui.py).  Paths, file names, date strings     *)
(* and metadata tags are sequences of one-character strings, so that the   *)
(* string functions of the code (lower, endswith, replace, splitext,       *)
(* basename, dirname, join, strptime, strftime) are modelled by what they  *)
(* do to the characters.                                                   *)
(***************************************************************************)
EXTENDS Integers, Sequences, FiniteSets, TLC

\* Body(e), with e evaluated once: a local variable holding a value.
Bind(e, Body(_)) == CHOOSE r \in {Body(x) : x \in {e}} : TRUE

(***************************************************************************)
(* Strings                                                                 *)
(***************************************************************************)
UpperChars == <<"A","B","C","D","E","F","G","H","I","J","K","L","M",
                "N","O","P","Q","R","S","T","U","V","W","X","Y","Z">>

LowerChars == <<"a","b","c","d","e","f","g","h","i","j","k","l","m",
                "n","o","p","q","r","s","t","u","v","w","x","y","z">>

DigitChars == <<"0","1","2","3","4","5","6","7","8","9">>

LowerChar(c) ==
    IF \E i \in 1..Len(UpperChars) : UpperChars[i] = c
    THEN LowerChars[CHOOSE i \in 1..Len(UpperChars) : UpperChars[i] = c]
    ELSE c

\* str.lower()
Lower(s) == [i \in 1..Len(s) |-> LowerChar(s[i])]

\* str.endswith(suffix)
EndsWith(s, suf) ==
    /\ Len(s) >= Len(suf)
    /\ SubSeq(s, Len(s) - Len(suf) + 1, Len(s)) = suf

\* str.endswith(tuple of suffixes)
EndsWithAny(s, sufs) == \E i \in 1..Len(sufs) : EndsWith(s, sufs[i])

\* str.startswith(prefix)
StartsWith(s, pre) ==
    /\ Len(s) >= Len(pre)
    /\ SubSeq(s, 1, Len(pre)) = pre

\* str.rfind(c) for a single character, as a 1-based index; 0 when absent
RFind(s, c) ==
    IF \E i \in 1..Len(s) : s[i] = c
    THEN CHOOSE i \in 1..Len(s) : s[i] = c /\ \A j \in (i+1)..Len(s) : s[j] # c
    ELSE 0

\* str.replace(old, new): every non-overlapping occurrence, left to right
RECURSIVE Replace(_, _, _)
Replace(s, old, new) ==
    IF Len(s) < Len(old) \/ Len(old) = 0 THEN s
    ELSE IF SubSeq(s, 1, Len(old)) = old
         THEN new \o Replace(SubSeq(s, Len(old) + 1, Len(s)), old, new)
         ELSE <<s[1]>> \o Replace(Tail(s), old, new)

(***************************************************************************)
(* os.path (posixpath)                                                     *)
(***************************************************************************)
Sep == "/"

AllSep(s) == \A i \in 1..Len(s) : s[i] = Sep

RECURSIVE RStripSep(_)
RStripSep(s) ==
    IF Len(s) > 0 /\ s[Len(s)] = Sep THEN RStripSep(SubSeq(s, 1, Len(s) - 1)) ELSE s

\* os.path.basename
Basename(p) == SubSeq(p, RFind(p, Sep) + 1, Len(p))

\* os.path.dirname
Dirname(p) ==
    LET head == SubSeq(p, 1, RFind(p, Sep))
    IN  IF Len(head) > 0 /\ ~AllSep(head) THEN RStripSep(head) ELSE head

\* os.path.join of two components
Join(a, b) ==
    IF StartsWith(b, <<Sep>>) THEN b
    ELSE IF Len(a) = 0 \/ a[Len(a)] = Sep THEN a \o b
    ELSE a \o <<Sep>> \o b

\* os.path.splitext: the extension starts at the last dot of the last
\* component, unless only dots precede it there
Splitext(p) ==
    LET sepIndex == RFind(p, Sep)
        dotIndex == RFind(p, ".")
    IN  IF dotIndex > sepIndex
           /\ \E i \in (sepIndex + 1)..(dotIndex - 1) : p[i] # "."
        THEN <<SubSeq(p, 1, dotIndex - 1), SubSeq(p, dotIndex, Len(p))>>
        ELSE <<p, <<>>>>

(***************************************************************************)
(* File classification and output names                                    *)
(***************************************************************************)
ExtJpg  == <<".", "j", "p", "g">>
ExtJpeg == <<".", "j", "p", "e", "g">>
ExtPng  == <<".", "p", "n", "g">>
ExtBmp  == <<".", "b", "m", "p">>
ExtTiff == <<".", "t", "i", "f", "f">>
ExtMts  == <<".", "m", "t", "s">>
ExtCpi  == <<".", "c", "p", "i">>
ExtM2ts == <<".", "m", "2", "t", "s">>

\* The branches without the lower(): extensions compared as written
CliBranchCaseSensitive(file_path) ==
    IF EndsWithAny(file_path, <<ExtJpg, ExtJpeg, ExtPng, ExtBmp, ExtTiff>>)
    THEN "image"
    ELSE IF EndsWithAny(file_path, <<ExtMts, ExtCpi>>)
         THEN IF EndsWith(file_path, ExtCpi) THEN "index" ELSE "clip"
         ELSE "none"

\* The branch process_media_files takes for a path: "image", "clip",
\* "index", or "none" when neither elif matches.
CliBranch(file_path) ==
    IF EndsWithAny(Lower(file_path), <<ExtJpg, ExtJpeg, ExtPng, ExtBmp, ExtTiff>>)
    THEN "image"
    ELSE IF EndsWithAny(Lower(file_path), <<ExtMts, ExtCpi>>)
         THEN IF EndsWith(Lower(file_path), ExtCpi) THEN "index" ELSE "clip"
         ELSE "none"

\* The same decision as Worker.run writes it.
GuiBranch(file_path) ==
    IF EndsWithAny(Lower(file_path), <<ExtJpg, ExtJpeg, ExtPng, ExtBmp, ExtTiff>>)
    THEN "image"
    ELSE IF EndsWithAny(Lower(file_path), <<ExtMts, ExtCpi>>)
         THEN IF EndsWith(Lower(file_path), ExtCpi) THEN "index" ELSE "clip"
         ELSE "none"

\* output_filename of a branch that has one
OutputFilename(file_path, branch) ==
    Splitext(Basename(file_path))[1] \o (IF branch = "image" THEN ExtJpg ELSE ExtM2ts)

GuiOutputFilename(file_path, branch) ==
    Splitext(Basename(file_path))[1] \o (IF branch = "image" THEN ExtJpg ELSE ExtM2ts)

(***************************************************************************)
(* Date resolution                                                         *)
(***************************************************************************)
IsDigit(c) == \E i \in 1..Len(DigitChars) : DigitChars[i] = c

DigitVal(c) == (CHOOSE i \in 1..Len(DigitChars) : DigitChars[i] = c) - 1

IsLeap(y) == (y % 4 = 0 /\ y % 100 # 0) \/ y % 400 = 0

DaysInMonth(y, m) ==
    IF m = 2 THEN (IF IsLeap(y) THEN 29 ELSE 28)
    ELSE IF m \in {4, 6, 9, 11} THEN 30 ELSE 31

\* The value of a run of at most six digits
RECURSIVE DigitsVal(_, _)
DigitsVal(s, n) == IF n = 0 THEN 0 ELSE 10 * DigitsVal(s, n - 1) + DigitVal(s[n])

\* The format '%Y-%m-%dT%H:%M:%S.%fZ' is seven numeric directives, each
\* followed by a literal that is no digit; strptime's pattern is compiled
\* ignoring case.  A string matches it exactly when its non-digit characters
\* are these seven literals in this order, the last one ending the string,
\* and each run of digits between them matches its directive.
FormatLiterals == <<"-", "-", "T", ":", ":", ".", "Z">>

\* The positions of the characters of s that are no digits, ascending
NonDigits(s) ==
    LET Sorted(nd) ==
            [k \in 1..Cardinality(nd) |->
                CHOOSE i \in nd : Cardinality({j \in nd : j < i}) = k - 1]
    IN  Bind({i \in 1..Len(s) : ~IsDigit(s[i])}, Sorted)

\* A directive with the two-digit alternatives lo2..hi2 and the one-digit
\* alternatives lo1..hi1 (%m is 1[0-2]|0[1-9]|[1-9], and so on)
FieldOk(run, lo2, hi2, lo1, hi1) ==
    \/ Len(run) = 2 /\ DigitsVal(run, 2) \in lo2..hi2
    \/ Len(run) = 1 /\ DigitsVal(run, 1) \in lo1..hi1

NoDate == [ok |-> FALSE, y |-> 0, m |-> 0, d |-> 0]

\* datetime.strptime(s, '%Y-%m-%dT%H:%M:%S.%fZ'): ok is FALSE where it
\* raises ValueError.  Only the date fields are kept: strftime('%m-%d-%Y')
\* reads no other.
Strptime(s) ==
    LET Parse(nd) ==
            LET Run(k) == SubSeq(s, (IF k = 1 THEN 0 ELSE nd[k - 1]) + 1, nd[k] - 1)
                Val(k) == DigitsVal(Run(k), Len(Run(k)))
            IN  IF /\ Len(nd) = 7
                   /\ nd[7] = Len(s)
                   /\ \A k \in 1..7 : LowerChar(s[nd[k]]) = LowerChar(FormatLiterals[k])
                   /\ Len(Run(1)) = 4 /\ Val(1) >= 1
                   /\ FieldOk(Run(2), 1, 12, 1, 9)
                   /\ FieldOk(Run(3), 1, 31, 1, 9)
                   /\ FieldOk(Run(4), 0, 23, 0, 9)
                   /\ FieldOk(Run(5), 0, 59, 0, 9)
                   /\ FieldOk(Run(6), 0, 59, 0, 9)
                   /\ Len(Run(7)) \in 1..6
                   /\ Val(3) <= DaysInMonth(Val(1), Val(2))
                THEN [ok |-> TRUE, y |-> Val(1), m |-> Val(2), d |-> Val(3)]
                ELSE NoDate
    IN  Bind(NonDigits(s), Parse)

Pad2(n) == <<DigitChars[(n \div 10) + 1], DigitChars[(n % 10) + 1]>>

RECURSIVE Decimal(_)
Decimal(n) ==
    IF n < 10 THEN <<DigitChars[n + 1]>>
    ELSE Decimal(n \div 10) \o <<DigitChars[(n % 10) + 1]>>

\* strftime('%m-%d-%Y')
Strftime(date) == Pad2(date.m) \o <<"-">> \o Pad2(date.d) \o <<"-">> \o Decimal(date.y)

(***************************************************************************)
(* get_creation_date.  A file is [path, probe, stat, ctime]: probe is what *)
(* ffmpeg.probe gives for it ([err, has_streams, streams], a stream being  *)
(* [tags, has_ct, ct]), stat whether os.stat succeeds on the path (it does *)
(* not on a symbolic link whose target is missing, which os.walk lists     *)
(* among the files) and ctime the local calendar date of its               *)
(* os.path.getctime.                                                       *)
(***************************************************************************)
\* The first stream carrying tags.creation_time; 0 when none does.
FirstTagged(streams) ==
    IF \E i \in 1..Len(streams) : streams[i].tags /\ streams[i].has_ct
    THEN CHOOSE i \in 1..Len(streams) :
            /\ streams[i].tags /\ streams[i].has_ct
            /\ \A j \in 1..(i - 1) : ~(streams[j].tags /\ streams[j].has_ct)
    ELSE 0

\* The try block: exc names what it raised ("none" when nothing), returned
\* says whether its return statement was reached.
TryProbe(probe) ==
    IF probe.err
    THEN [exc |-> "ffmpeg.Error", returned |-> FALSE, value |-> <<>>]
    ELSE IF ~probe.has_streams
    THEN [exc |-> "KeyError", returned |-> FALSE, value |-> <<>>]
    ELSE LET i == FirstTagged(probe.streams)
         IN  IF i = 0
             THEN [exc |-> "none", returned |-> FALSE, value |-> <<>>]
             ELSE LET Returned(t) ==
                          IF t.ok
                          THEN [exc |-> "none", returned |-> TRUE, value |-> Strftime(t)]
                          ELSE [exc |-> "ValueError", returned |-> FALSE, value |-> <<>>]
                  IN  Bind(Strptime(probe.streams[i].ct), Returned)

\* except Exception: pass
ExceptCatches(exc) == TRUE

\* datetime.fromtimestamp(os.path.getctime(file_path)).strftime('%m-%d-%Y')
FallbackDate(file) == Strftime(file.ctime)

GetCreationDate(file) ==
    LET After(t) ==
            IF t.exc # "none" /\ ~ExceptCatches(t.exc)
            THEN [raised |-> TRUE, date |-> <<>>]
            ELSE IF t.exc = "none" /\ t.returned
            THEN [raised |-> FALSE, date |-> t.value]
            ELSE IF ~file.stat
            THEN \* os.path.getctime raises, outside the try
                 [raised |-> TRUE, date |-> <<>>]
            ELSE [raised |-> FALSE, date |-> FallbackDate(file)]
    IN  Bind(TryProbe(file.probe), After)

(***************************************************************************)
(* find_associated_video.  disk is the set of files of the file system;    *)
(* the empty path stands for None.                                         *)
(***************************************************************************)
None == <<>>

CpiSuffix == <<".", "C", "P", "I">>
MtsSuffix == <<".", "M", "T", "S">>

\* fnmatch of a name against  <clip_name>*.MTS ; glob leaves out hidden
\* names unless the pattern itself starts with a dot.
GlobNameMatches(name, clip_name) ==
    /\ Len(name) >= Len(clip_name) + Len(MtsSuffix)
    /\ StartsWith(name, clip_name)
    /\ EndsWith(name, MtsSuffix)
    /\ (StartsWith(name, <<".">>) => StartsWith(clip_name, <<".">>))

\* glob.glob(os.path.join(clip_dir, f"{clip_name}*.MTS")) as a set: glob
\* returns the matches in the order the directory lists them.
Glob(clip_dir, clip_name, disk) ==
    {f.path : f \in {g \in disk : /\ Dirname(g.path) = clip_dir
                                  /\ GlobNameMatches(Basename(g.path), clip_name)}}

ClipDir(cpi_file) == Dirname(Dirname(cpi_file))

ClipName(cpi_file) == Replace(Basename(cpi_file), CpiSuffix, <<>>)

\* The values find_associated_video may return: video_files[0] is whichever
\* match the directory lists first, None when there is no match.
FindAssociatedVideo(cpi_file, disk) ==
    LET video_files == Glob(ClipDir(cpi_file), ClipName(cpi_file), disk)
    IN  IF video_files = {} THEN {None} ELSE video_files

(***************************************************************************)
(* convert_image_to_jpg and convert_to_m2ts.  dest maps each path of the   *)
(* destination tree that holds a file to "complete" or "truncated"; enc is *)
(* what ffmpeg.run does when called: "ok" (writes the output), "fail"      *)
(* (raises, nothing written) or "partial" (raises, a truncated output is   *)
(* left).                                                                  *)
(***************************************************************************)
EncOutcomes == {"ok", "fail", "partial"}

\* os.path.exists(output_file)
PathExists(d, p) == p \in DOMAIN d

Put(d, p, v) == [q \in (DOMAIN d) \cup {p} |-> IF q = p THEN v ELSE d[q]]

\* ffmpeg.run(stream, quiet=True) inside the try: what is on disk after
\* it, and whether it raised
RunEncoder(d, output_file, enc) ==
    CASE enc = "ok"      -> [raised |-> FALSE, dest |-> Put(d, output_file, "complete")]
      [] enc = "partial" -> [raised |-> TRUE,  dest |-> Put(d, output_file, "truncated")]
      [] OTHER           -> [raised |-> TRUE,  dest |-> d]

\* The conversion without the exists check
ConvertImageOverwrite(d, output_file, enc) ==
    LET r == RunEncoder(d, output_file, enc)
    IN  [ret |-> ~r.raised, invoked |-> TRUE, dest |-> r.dest]

\* The conversion with an exists check that only a complete file passes
ConvertImageRetryTruncated(d, output_file, enc) ==
    IF PathExists(d, output_file) /\ d[output_file] = "complete"
    THEN [ret |-> FALSE, invoked |-> FALSE, dest |-> d]
    ELSE LET r == RunEncoder(d, output_file, enc)
         IN  [ret |-> ~r.raised, invoked |-> TRUE, dest |-> r.dest]

ConvertImageToJpg(d, output_file, enc) ==
    IF PathExists(d, output_file)
    THEN [ret |-> FALSE, invoked |-> FALSE, dest |-> d]
    ELSE LET r == RunEncoder(d, output_file, enc)
         IN  [ret |-> ~r.raised, invoked |-> TRUE, dest |-> r.dest]

\* The stream copy without the exists check
ConvertToM2tsOverwrite(d, output_file, enc) ==
    LET r == RunEncoder(d, output_file, enc)
    IN  [ret |-> ~r.raised, invoked |-> TRUE, dest |-> r.dest]

ConvertToM2ts(d, output_file, enc) ==
    IF PathExists(d, output_file)
    THEN [ret |-> FALSE, invoked |-> FALSE, dest |-> d]
    ELSE LET r == RunEncoder(d, output_file, enc)
         IN  [ret |-> ~r.raised, invoked |-> TRUE, dest |-> r.dest]

(***************************************************************************)
(* The progress value int((processed / total_files) * 100).  Python's      *)
(* float is IEEE 754 binary64.  A float is [sig, exp]: sig spells a 53-bit *)
(* integer in base 512, most significant digit first, and the float stands *)
(* for sig * 2^exp.  An integer of the model is a 32-bit one, hence the    *)
(* digits.  Division and multiplication round to nearest, ties to even.    *)
(***************************************************************************)
MantissaBits == 53

RECURSIVE ToDigits(_)
ToDigits(n) == IF n = 0 THEN <<>> ELSE ToDigits(n \div 512) \o <<n % 512>>

RECURSIVE ToInt(_)
ToInt(digits) ==
    IF Len(digits) = 0 THEN 0
    ELSE 512 * ToInt(SubSeq(digits, 1, Len(digits) - 1)) + digits[Len(digits)]

RECURSIVE Strip(_)
Strip(digits) ==
    IF Len(digits) > 0 /\ digits[1] = 0 THEN Strip(Tail(digits)) ELSE digits

\* digits * c + carry
RECURSIVE MulSmall(_, _, _)
MulSmall(digits, c, carry) ==
    IF Len(digits) = 0 THEN ToDigits(carry)
    ELSE LET t == digits[Len(digits)] * c + carry
         IN  MulSmall(SubSeq(digits, 1, Len(digits) - 1), c, t \div 512) \o <<t % 512>>

\* (rem * 512^Len(digits) + digits) divided by dv: quotient and remainder
RECURSIVE DivSmall(_, _, _)
DivSmall(digits, dv, rem) ==
    IF Len(digits) = 0 THEN [quot |-> <<>>, rem |-> rem]
    ELSE LET cur  == rem * 512 + digits[1]
             rest == DivSmall(Tail(digits), dv, cur % dv)
         IN  [quot |-> <<cur \div dv>> \o rest.quot, rem |-> rest.rem]

RECURSIVE Pow2(_)
Pow2(t) == IF t = 0 THEN 1 ELSE 2 * Pow2(t - 1)

RECURSIVE BitLen(_)
BitLen(n) == IF n = 0 THEN 0 ELSE 1 + BitLen(n \div 2)

BitLength(digits) ==
    IF Len(digits) = 0 THEN 0 ELSE 9 * (Len(digits) - 1) + BitLen(digits[1])

\* digits shifted right by s bits; lost says whether a nonzero bit fell off
RECURSIVE ShiftRight(_, _)
ShiftRight(digits, s) ==
    IF Len(digits) = 0 THEN [quot |-> <<>>, lost |-> FALSE]
    ELSE IF s >= 9
    THEN LET r == ShiftRight(SubSeq(digits, 1, Len(digits) - 1), s - 9)
         IN  [quot |-> r.quot, lost |-> r.lost \/ digits[Len(digits)] # 0]
    ELSE LET r == DivSmall(digits, Pow2(s), 0)
         IN  [quot |-> Strip(r.quot), lost |-> r.rem # 0]

IsOdd(digits) == Len(digits) > 0 /\ digits[Len(digits)] % 2 = 1

Normal(sig, exp) ==
    IF BitLength(sig) > MantissaBits
    THEN [sig |-> ShiftRight(sig, 1).quot, exp |-> exp + 1]
    ELSE [sig |-> sig, exp |-> exp]

\* Round the integer digits (of at least 53 bits; sticky: the exact value
\* has nonzero bits beyond it) times 2^exp to a float.
Round(digits, sticky, exp) ==
    LET d == BitLength(digits) - MantissaBits
    IN  IF d = 0 THEN [sig |-> digits, exp |-> exp]
        ELSE LET half == ShiftRight(digits, d - 1)
                 keep == ShiftRight(half.quot, 1).quot
                 up   == /\ IsOdd(half.quot)
                         /\ (half.lost \/ sticky \/ IsOdd(keep))
             IN  IF up THEN Normal(Strip(MulSmall(keep, 1, 1)), exp + d)
                 ELSE [sig |-> keep, exp |-> exp + d]

\* The least t with k * 2^t >= n
RECURSIVE ShiftUp(_, _)
ShiftUp(k, n) == IF k >= n THEN 0 ELSE 1 + ShiftUp(2 * k, n)

\* count base-512 digits of the fraction r / n, r < n, and the remainder
RECURSIVE LongDiv(_, _, _)
LongDiv(r, n, count) ==
    IF count = 0 THEN [digits |-> <<>>, rem |-> r]
    ELSE LET rest == LongDiv((r * 512) % n, n, count - 1)
         IN  [digits |-> <<(r * 512) \div n>> \o rest.digits, rem |-> rest.rem]

\* processed / total_files for integers 1 <= k <= n: the true quotient,
\* correctly rounded.  With r = k * 2^t in [n, 2n), the 54-bit integer
\* floor(r * 2^53 / n) is one digit floor(r * 256 / n) and five more.
FDiv(k, n) ==
    LET t    == ShiftUp(k, n)
        r    == k * Pow2(t)
        rest == LongDiv((r * 256) % n, n, 5)
    IN  Round(<<(r * 256) \div n>> \o rest.digits, rest.rem # 0,
              -(MantissaBits + t))

\* x * c for a float x and a small positive integer c (exact as a float)
FMulInt(x, c) == Round(Strip(MulSmall(x.sig, c, 0)), FALSE, x.exp)

\* int(x): truncation, for 0 < x < 2^18
PyInt(x) == ToInt(ShiftRight(x.sig, -x.exp).quot)

\* progress = int((processed / total_files) * 100)
Progress(processed, total_files) == PyInt(FMulInt(FDiv(processed, total_files), 100))

(***************************************************************************)
(* The file system the runs work on.  Universe lists the files a source    *)
(* tree is drawn from; a tree is the files of a listing, which is also the *)
(* order os.walk yields them in (whatever order the directories list their *)
(* entries in).  The destination root lies outside the source tree.        *)
(***************************************************************************)
MaxFiles == 2
MaxRuns  == 2

camera_path      == <<"/", "c">>
destination_root == <<"/", "o">>

Stamp1 == <<"2", "0", "2", "3", "-", "0", "5", "-", "0", "1", "T", "1", "0", ":", "0", "0", ":", "0", "0", ".", "0", "0", "0", "0", "0", "0", "Z">>

ProbeError == [err |-> TRUE, has_streams |-> FALSE, streams |-> <<>>]
ProbeNoTag == [err |-> FALSE, has_streams |-> TRUE,
               streams |-> <<[tags |-> FALSE, has_ct |-> FALSE, ct |-> <<>>]>>]
ProbeTagged(ct) == [err |-> FALSE, has_streams |-> TRUE,
                    streams |-> <<[tags |-> TRUE, has_ct |-> TRUE, ct |-> ct]>>]

Day1 == [y |-> 2023, m |-> 5, d |-> 1]
Day2 == [y |-> 2022, m |-> 1, d |-> 10]

Universe == <<
    [path |-> <<"/", "c", "/", "a", ".", "j", "p", "g">>,     probe |-> ProbeTagged(Stamp1), stat |-> TRUE, ctime |-> Day2],
    [path |-> <<"/", "c", "/", "a", ".", "P", "N", "G">>,     probe |-> ProbeError,          stat |-> TRUE, ctime |-> Day1],
    [path |-> <<"/", "c", "/", "s", "/", "a", ".", "b", "m", "p">>,   probe |-> ProbeNoTag,          stat |-> TRUE, ctime |-> Day2],
    [path |-> <<"/", "c", "/", "d", "/", "k", ".", "M", "T", "S">>,   probe |-> ProbeTagged(Stamp1), stat |-> TRUE, ctime |-> Day2],
    [path |-> <<"/", "c", "/", "d", "/", "e", "/", "k", ".", "C", "P", "I">>, probe |-> ProbeError,          stat |-> TRUE, ctime |-> Day1],
    [path |-> <<"/", "c", "/", "d", "/", "e", "/", "k", ".", "c", "p", "i">>, probe |-> ProbeError,          stat |-> TRUE, ctime |-> Day2],
    [path |-> <<"/", "c", "/", "n", ".", "t", "x", "t">>,     probe |-> ProbeNoTag,          stat |-> TRUE, ctime |-> Day1],
    [path |-> <<"/", "c", "/", "l", ".", "j", "p", "g">>,     probe |-> ProbeError,          stat |-> FALSE, ctime |-> Day1] >>

FileIds == 1..Len(Universe)

\* The sequences without repetition of at most n elements of S
RECURSIVE Listings(_, _)
Listings(S, n) ==
    IF n = 0 THEN {<<>>}
    ELSE LET shorter == Listings(S, n - 1)
         IN  shorter \cup {Append(l, x) : <<l, x>> \in
                             {<<l, x>> \in shorter \X S :
                                 /\ Len(l) = n - 1
                                 /\ \A i \in 1..Len(l) : l[i] # x}}

Range(seq) == {seq[i] : i \in 1..Len(seq)}

Trees == {S \in SUBSET FileIds : Cardinality(S) <= MaxFiles}

\* What the functions above give for each file of Universe, computed once.
DateTable == [i \in FileIds |-> GetCreationDate(Universe[i])]

CliBranchTable == [i \in FileIds |-> CliBranch(Universe[i].path)]

GuiBranchTable == [i \in FileIds |-> GuiBranch(Universe[i].path)]

\* video_file = self.find_associated_video(file_path), called for the
\* index branch only: the values it may return, for each tree
VideoTable ==
    [i \in FileIds |-> [S \in Trees |->
        IF CliBranch(Universe[i].path) = "index" \/ GuiBranch(Universe[i].path) = "index"
        THEN FindAssociatedVideo(Universe[i].path, {Universe[j] : j \in S})
        ELSE {None}]]

ProgressTable == [n \in 1..MaxFiles |-> [k \in 1..n |-> Progress(k, n)]]

(***************************************************************************)
(* State                                                                   *)
(***************************************************************************)
VARIABLES
    listing,          \* the source tree: ids of Universe, in os.walk's order
    dest,             \* the files of the destination tree: path -> content
    dirs,             \* the destination folders os.makedirs has made
    mode,             \* "idle", "cli" (process_media_files), "gui" (Worker)
    runs,             \* runs started so far
    files,            \* the list the running loop iterates over
    idx,              \* how many of them the loop has handled
    processed_count,  \* process_media_files' counters
    skipped_count,
    log,              \* what the running loop did with each file so far
    inflight,         \* the ffmpeg.run call the worker is inside, if any
    signals,          \* what the worker has emitted, in order
    dest0,            \* dest and dirs as they were when the run started
    dirs0,
    prev,             \* the outcome of the last completed command-line run
    sdest,            \* the same run, had its first encoder failure
    slog,             \*   not occurred (the call succeeding instead)
    failed_at,        \* position of that first failure, 0 while none
    pure,             \* the pure functions applied to drawn inputs
    loop              \* Worker.run's loop over total_files abstract files

vars == <<listing, dest, dirs, mode, runs, files, idx, processed_count,
          skipped_count, log, inflight, signals, dest0, dirs0, prev,
          sdest, slog, failed_at, pure, loop>>

runVars  == <<listing, dest, dirs, mode, runs, files, idx, processed_count,
              skipped_count, log, inflight, signals, dest0, dirs0, prev,
              sdest, slog, failed_at>>

EmptyDest == [q \in {} |-> "complete"]

NoCall == [active |-> FALSE, id |-> 0, out |-> <<>>, video |-> <<>>]

NoPrev == [valid |-> FALSE, processed |-> 0, skipped |-> 0, allok |-> FALSE]

PureIdle == [fn |-> "none"]

LoopIdle == [pc |-> "off", total |-> 0, done |-> 0, signals |-> <<>>]

AllOk(l) == \A i \in 1..Len(l) : l[i].invoked => l[i].ret

(***************************************************************************)
(* process_media_files                                                     *)
(***************************************************************************)
\* for root, _, filenames in os.walk(self.camera_path): the files below
\* camera_path, in listing order
RECURSIVE Walk(_, _)
Walk(root, l) ==
    IF Len(l) = 0 THEN <<>>
    ELSE IF StartsWith(Universe[l[1]].path, root \o <<Sep>>)
         THEN <<l[1]>> \o Walk(root, Tail(l))
         ELSE Walk(root, Tail(l))

\* destination_dir = os.path.join(self.destination_root, date_str)
DestinationDir(date_str) == Join(destination_root, date_str)

\* output_path of the iteration for file i
CliOutputTable ==
    [i \in FileIds |->
        LET OutputPath(date_str) ==
                Join(DestinationDir(date_str),
                     OutputFilename(Universe[i].path, CliBranch(Universe[i].path)))
        IN  Bind(GetCreationDate(Universe[i]).date, OutputPath)]

\* The body with an index file that has no clip counted as skipped
CliHandleCountsUnpaired(d, branch, output_path, video_file, enc) ==
    LET Skipped == [dest |-> d, existed |-> FALSE, invoked |-> FALSE,
                    ret |-> FALSE, counted |-> "skipped"]
        NoJob   == [dest |-> d, existed |-> FALSE, invoked |-> FALSE,
                    ret |-> FALSE, counted |-> "none"]
        Counted(c) == [dest |-> c.dest, existed |-> PathExists(d, output_path),
                       invoked |-> c.invoked, ret |-> c.ret,
                       counted |-> IF c.ret THEN "processed" ELSE "skipped"]
    IN  CASE branch = "image" -> Counted(ConvertImageToJpg(d, output_path, enc))
          [] branch = "clip"  -> Counted(ConvertToM2ts(d, output_path, enc))
          [] branch = "index" ->
                IF video_file # None
                THEN Counted(ConvertToM2ts(d, output_path, enc))
                ELSE Skipped
          [] OTHER -> NoJob

\* The body of the if/elif of one iteration: what it does to the
\* destination and which counter it adds to.
CliHandle(d, branch, output_path, video_file, enc) ==
    LET NoJob == [dest |-> d, existed |-> FALSE, invoked |-> FALSE,
                  ret |-> FALSE, counted |-> "none"]
        Counted(c) == [dest |-> c.dest, existed |-> PathExists(d, output_path),
                       invoked |-> c.invoked, ret |-> c.ret,
                       counted |-> IF c.ret THEN "processed" ELSE "skipped"]
    IN  CASE branch = "image" -> Counted(ConvertImageToJpg(d, output_path, enc))
          [] branch = "clip"  -> Counted(ConvertToM2ts(d, output_path, enc))
          [] branch = "index" ->
                IF video_file # None
                THEN Counted(ConvertToM2ts(d, output_path, enc))
                ELSE NoJob
          [] OTHER -> NoJob

Entry(id, branch, output_path, video_file, enc, r) ==
    [id |-> id, branch |-> branch,
     out |-> IF branch = "none" THEN <<>> ELSE output_path,
     video |-> IF branch = "index" THEN video_file ELSE <<>>,
     existed |-> r.existed, invoked |-> r.invoked,
     enc |-> IF r.invoked THEN enc ELSE "none",
     ret |-> r.ret, counted |-> r.counted,
     before |-> IF r.existed THEN dest[output_path] ELSE "absent"]

CliStart ==
    /\ mode = "idle" /\ runs < MaxRuns
    /\ mode' = "cli" /\ runs' = runs + 1
    /\ files' = Walk(camera_path, listing)
    /\ idx' = 0 /\ processed_count' = 0 /\ skipped_count' = 0
    /\ log' = <<>> /\ signals' = <<>>
    /\ dest0' = dest /\ dirs0' = dirs
    /\ sdest' = dest /\ slog' = <<>> /\ failed_at' = 0
    /\ UNCHANGED <<listing, dest, dirs, inflight, prev, pure, loop>>

\* One iteration of  for file_path in tqdm(files)
CliStep ==
    /\ mode = "cli" /\ idx < Len(files)
    /\ LET id   == files[idx + 1]
           date == DateTable[id]
           destination_dir == DestinationDir(date.date)
           branch == CliBranchTable[id]
           output_path == CliOutputTable[id]
       IN  IF date.raised
           THEN \* the exception leaves process_media_files
                /\ mode' = "idle" /\ prev' = NoPrev
                /\ UNCHANGED <<dest, dirs, idx, processed_count, skipped_count,
                               log, sdest, slog, failed_at>>
           ELSE \E enc \in EncOutcomes :
                \E video_file \in VideoTable[id][Range(listing)] :
                  LET r     == CliHandle(dest, branch, output_path, video_file, enc)
                      first == failed_at = 0 /\ r.invoked /\ ~r.ret
                      sr    == CliHandle(sdest, branch, output_path, video_file,
                                         IF first THEN "ok" ELSE enc)
                  IN  /\ dirs' = dirs \cup {destination_dir}
                      /\ dest' = r.dest
                      /\ processed_count' =
                            processed_count + (IF r.counted = "processed" THEN 1 ELSE 0)
                      /\ skipped_count' =
                            skipped_count + (IF r.counted = "skipped" THEN 1 ELSE 0)
                      /\ log' = Append(log, Entry(id, branch, output_path, video_file, enc, r))
                      /\ idx' = idx + 1
                      /\ sdest' = sr.dest
                      /\ slog' = Append(slog, [invoked |-> sr.invoked, counted |-> sr.counted])
                      /\ failed_at' = IF first THEN idx + 1 ELSE failed_at
                      /\ UNCHANGED <<mode, prev>>
    /\ UNCHANGED <<listing, runs, files, inflight, signals, dest0, dirs0, pure, loop>>

\* The loop is over: the summary is printed
CliFinish ==
    /\ mode = "cli" /\ idx = Len(files)
    /\ mode' = "idle"
    /\ prev' = [valid |-> TRUE, processed |-> processed_count,
                skipped |-> skipped_count, allok |-> AllOk(log)]
    /\ UNCHANGED <<listing, dest, dirs, runs, files, idx, processed_count,
                   skipped_count, log, inflight, signals, dest0, dirs0,
                   sdest, slog, failed_at, pure, loop>>

(***************************************************************************)
(* The window: start_organizing, Worker.run, cancel_operation              *)
(***************************************************************************)
ProcessingPrefix == <<"P", "r", "o", "c", "e", "s", "s", "i", "n", "g", ":", " ">>

Progressed(k, total) ==
    <<[sig |-> "progress", val |-> ProgressTable[total][k]],
      [sig |-> "message", text |-> ProcessingPrefix \o Basename(Universe[files[k]].path)]>>

\* destination_dir and output_path of the worker's iteration for file i
GuiJobTable ==
    [i \in FileIds |->
        LET Job(destination_dir) ==
                [branch |-> GuiBranch(Universe[i].path),
                 dir |-> destination_dir,
                 out |-> Join(destination_dir,
                              GuiOutputFilename(Universe[i].path,
                                                GuiBranch(Universe[i].path)))]
        IN  Bind(Join(destination_root, GetCreationDate(Universe[i]).date), Job)]

\* Whether the iteration calls a convert function
GuiCalls(job, video_file) ==
    \/ job.branch \in {"image", "clip"}
    \/ (job.branch = "index" /\ video_file # None)

GuiConvert(d, job, enc) ==
    IF job.branch = "image"
    THEN ConvertImageToJpg(d, job.out, enc)
    ELSE ConvertToM2ts(d, job.out, enc)

GuiEntry(id, job, video_file, enc, c, calls) ==
    [id |-> id, branch |-> job.branch,
     out |-> IF job.branch = "none" THEN <<>> ELSE job.out,
     video |-> IF job.branch = "index" THEN video_file ELSE <<>>,
     existed |-> calls /\ PathExists(dest, job.out),
     invoked |-> calls /\ c.invoked,
     enc |-> IF calls /\ c.invoked THEN enc ELSE "none",
     ret |-> calls /\ c.ret, counted |-> "none",
     before |-> IF calls /\ PathExists(dest, job.out) THEN dest[job.out] ELSE "absent"]

\* start_organizing, and Worker.run up to its loop
GuiStart ==
    /\ mode = "idle" /\ runs < MaxRuns
    /\ mode' = "gui" /\ runs' = runs + 1
    /\ files' = Walk(camera_path, listing)
    /\ idx' = 0 /\ processed_count' = 0 /\ skipped_count' = 0
    /\ log' = <<>> /\ signals' = <<>> /\ inflight' = NoCall
    /\ dest0' = dest /\ dirs0' = dirs
    /\ sdest' = dest /\ slog' = <<>> /\ failed_at' = 0
    /\ prev' = NoPrev
    /\ UNCHANGED <<listing, dest, dirs, pure, loop>>

\* An iteration that does not reach ffmpeg.run: no branch matches, the
\* index file has no clip, or the output path exists
WorkerSkip ==
    /\ mode = "gui" /\ ~inflight.active /\ idx < Len(files)
    /\ LET id == files[idx + 1]
       IN  /\ ~DateTable[id].raised
           /\ \E video_file \in VideoTable[id][Range(listing)] :
                LET job == GuiJobTable[id]
                    c   == GuiConvert(dest, job, "ok")
                IN  /\ ~(GuiCalls(job, video_file) /\ c.invoked)
                    /\ dirs' = dirs \cup {job.dir}
                    /\ log' = Append(log, GuiEntry(id, job, video_file, "none", c,
                                                   GuiCalls(job, video_file)))
                    /\ idx' = idx + 1
                    /\ signals' = signals \o Progressed(idx + 1, Len(files))
    /\ UNCHANGED <<listing, dest, mode, runs, files, processed_count, skipped_count,
                   inflight, dest0, dirs0, prev, sdest, slog, failed_at, pure, loop>>

\* An iteration that reaches ffmpeg.run: the worker is inside the call
WorkerInvoke ==
    /\ mode = "gui" /\ ~inflight.active /\ idx < Len(files)
    /\ LET id == files[idx + 1]
       IN  /\ ~DateTable[id].raised
           /\ \E video_file \in VideoTable[id][Range(listing)] :
                LET job == GuiJobTable[id]
                    c   == GuiConvert(dest, job, "ok")
                IN  /\ GuiCalls(job, video_file) /\ c.invoked
                    /\ dirs' = dirs \cup {job.dir}
                    /\ inflight' = [active |-> TRUE, id |-> id, out |-> job.out,
                                    video |-> video_file]
    /\ UNCHANGED <<listing, dest, mode, runs, files, idx, processed_count,
                   skipped_count, log, signals, dest0, dirs0, prev,
                   sdest, slog, failed_at, pure, loop>>

\* ffmpeg.run returns or raises; the iteration ends with its two emits
WorkerReturn ==
    /\ mode = "gui" /\ inflight.active
    /\ \E enc \in EncOutcomes :
          LET job == GuiJobTable[inflight.id]
              c   == GuiConvert(dest, job, enc)
          IN  /\ dest' = c.dest
              /\ log' = Append(log, GuiEntry(inflight.id, job, inflight.video, enc, c, TRUE))
    /\ idx' = idx + 1
    /\ signals' = signals \o Progressed(idx + 1, Len(files))
    /\ inflight' = NoCall
    /\ UNCHANGED <<listing, dirs, mode, runs, files, processed_count, skipped_count,
                   dest0, dirs0, prev, sdest, slog, failed_at, pure, loop>>

\* os.makedirs raises (the destination cannot be written): the exception
\* reaches Worker.run's handler
WorkerFault ==
    /\ mode = "gui" /\ ~inflight.active /\ idx < Len(files)
    /\ signals' = signals \o <<[sig |-> "message", text |-> <<"E", "r", "r", "o", "r">>],
                               [sig |-> "finished", val |-> FALSE]>>
    /\ mode' = "idle"
    /\ UNCHANGED <<listing, dest, dirs, runs, files, idx, processed_count,
                   skipped_count, log, inflight, dest0, dirs0, prev,
                   sdest, slog, failed_at, pure, loop>>

\* The loop is over: finished.emit(True), operation_finished
WorkerFinish ==
    /\ mode = "gui" /\ ~inflight.active /\ idx = Len(files)
    /\ signals' = Append(signals, [sig |-> "finished", val |-> TRUE])
    /\ mode' = "idle"
    /\ UNCHANGED <<listing, dest, dirs, runs, files, idx, processed_count,
                   skipped_count, log, inflight, dest0, dirs0, prev,
                   sdest, slog, failed_at, pure, loop>>

\* cancel_operation: worker.terminate().  A call in flight is cut off with
\* its output not yet begun or partly written.
CancelOperation ==
    /\ mode = "gui"
    /\ \E left \in {"nothing", "truncated"} :
          dest' = IF inflight.active /\ left = "truncated"
                  THEN Put(dest, inflight.out, "truncated")
                  ELSE dest
    /\ inflight' = NoCall
    /\ mode' = "idle"
    /\ UNCHANGED <<listing, dirs, runs, files, idx, processed_count, skipped_count,
                   log, signals, dest0, dirs0, prev, sdest, slog, failed_at,
                   pure, loop>>

(***************************************************************************)
(* The runs: any number of command-line and window runs, one after the     *)
(* other, over one unchanged source tree                                   *)
(***************************************************************************)
Init ==
    /\ listing \in Listings(FileIds, MaxFiles)
    /\ dest = EmptyDest /\ dirs = {}
    /\ mode = "idle" /\ runs = 0
    /\ files = <<>> /\ idx = 0
    /\ processed_count = 0 /\ skipped_count = 0
    /\ log = <<>> /\ inflight = NoCall /\ signals = <<>>
    /\ dest0 = EmptyDest /\ dirs0 = {}
    /\ prev = NoPrev
    /\ sdest = EmptyDest /\ slog = <<>> /\ failed_at = 0
    /\ pure = PureIdle /\ loop = LoopIdle

Next ==
    \/ CliStart \/ CliStep \/ CliFinish
    \/ GuiStart \/ WorkerSkip \/ WorkerInvoke \/ WorkerReturn
    \/ WorkerFault \/ WorkerFinish \/ CancelOperation

Spec == Init /\ [][Next]_vars

(***************************************************************************)
(* The pure functions on drawn inputs: classification and output name of a *)
(* path, date resolution of a file, pairing of an index file within a      *)
(* directory tree                                                          *)
(***************************************************************************)
SampleDirs  == {<<"/", "c", "/">>,
                <<"/", "c", "/", "d", ".", "j", "p", "g", "/">>,
                <<"/", "c", "/", "s", ".", "C", "P", "I", "/", "e", "/">>}
SampleStems == {<<"a">>, <<"a", ".", "b">>, <<".", "h">>, <<"k", "2">>}
SampleExts  == {<<".", "j", "p", "g">>,
                <<".", "J", "P", "G">>,
                <<".", "J", "p", "g">>,
                <<".", "j", "p", "e", "g">>,
                <<".", "J", "P", "E", "G">>,
                <<".", "p", "n", "g">>,
                <<".", "P", "n", "G">>,
                <<".", "b", "m", "p">>,
                <<".", "B", "M", "P">>,
                <<".", "t", "i", "f", "f">>,
                <<".", "T", "I", "F", "F">>,
                <<".", "m", "t", "s">>,
                <<".", "M", "T", "S">>,
                <<".", "c", "p", "i">>,
                <<".", "C", "P", "I">>,
                <<".", "C", "p", "i">>,
                <<".", "t", "x", "t">>,
                <<".", "m", "2", "t", "s">>,
                <<".", "t", "i", "f">>,
                <<".", "j", "p", "e">>,
                <<".", "j", "p", "g", ".", "t", "x", "t">>,
                <<".", "c", "p", "i", ".", "b", "a", "k">>,
                <<"j", "p", "g">>,
                <<>>,
                <<".", "m", "p", "4">>,
                <<".", "p", "n", "g", "x">>}

\* Metadata timestamps with what datetime.strptime makes of each: whether
\* it parses under '%Y-%m-%dT%H:%M:%S.%fZ' and, if so, its date as
\* MM-DD-YYYY
SampleStamps == <<
    [text |-> <<"2", "0", "2", "3", "-", "0", "5", "-", "0", "1", "T", "1", "0", ":", "0", "0", ":", "0", "0", ".", "0", "0", "0", "0", "0", "0", "Z">>,
     valid |-> TRUE, folder |-> <<"0", "5", "-", "0", "1", "-", "2", "0", "2", "3">>],
    [text |-> <<"2", "0", "2", "2", "-", "1", "2", "-", "3", "1", "T", "2", "3", ":", "5", "9", ":", "5", "9", ".", "5", "Z">>,
     valid |-> TRUE, folder |-> <<"1", "2", "-", "3", "1", "-", "2", "0", "2", "2">>],
    [text |-> <<"2", "0", "2", "4", "-", "2", "-", "2", "9", "T", "1", ":", "2", ":", "3", ".", "2", "5", "z">>,
     valid |-> TRUE, folder |-> <<"0", "2", "-", "2", "9", "-", "2", "0", "2", "4">>],
    [text |-> <<"2", "0", "2", "3", "-", "0", "5", "-", "0", "1", "T", "1", "0", ":", "0", "0", ":", "0", "0", "Z">>,
     valid |-> FALSE, folder |-> <<>>],
    [text |-> <<"2", "0", "2", "3", "-", "1", "3", "-", "0", "1", "T", "1", "0", ":", "0", "0", ":", "0", "0", ".", "0", "Z">>,
     valid |-> FALSE, folder |-> <<>>],
    [text |-> <<"2", "0", "2", "3", "-", "0", "2", "-", "2", "9", "T", "1", "0", ":", "0", "0", ":", "0", "0", ".", "0", "Z">>,
     valid |-> FALSE, folder |-> <<>>],
    [text |-> <<"2", "0", "2", "3", "-", "0", "5", "-", "0", "1", " ", "1", "0", ":", "0", "0", ":", "0", "0", ".", "0", "Z">>,
     valid |-> FALSE, folder |-> <<>>],
    [text |-> <<>>,
     valid |-> FALSE, folder |-> <<>>] >>

\* File creation dates, each with its MM-DD-YYYY text
SampleCTimes == <<
    [date |-> [y |-> 2022, m |-> 1, d |-> 10], folder |-> <<"0", "1", "-", "1", "0", "-", "2", "0", "2", "2">>],
    [date |-> [y |-> 2023, m |-> 5, d |-> 1], folder |-> <<"0", "5", "-", "0", "1", "-", "2", "0", "2", "3">>],
    [date |-> [y |-> 2024, m |-> 12, d |-> 9], folder |-> <<"1", "2", "-", "0", "9", "-", "2", "0", "2", "4">>] >>

\* A stream: 0 carries no tags, -1 tags without creation_time, k > 0 the
\* creation_time SampleStamps[k]
StreamOf(k) ==
    [tags |-> k # 0, has_ct |-> k > 0,
     ct |-> IF k > 0 THEN SampleStamps[k].text ELSE <<>>]

SampleStreamLists ==
    {<<>>} \cup {<<k>> : k \in -1..Len(SampleStamps)}
           \cup {<<0, 1>>, <<-1, 2>>, <<4, 1>>, <<1, 2>>, <<2, 5>>, <<6, 3>>}

\* A probe: "error" (ffmpeg.probe raises), "nokey" (no 'streams' in what it
\* returns), or the streams it returns
SampleProbes ==
    {[kind |-> "error", streams |-> <<>>], [kind |-> "nokey", streams |-> <<>>]}
    \cup {[kind |-> "streams", streams |-> l] : l \in SampleStreamLists}

ProbeOf(sp) ==
    [err |-> sp.kind = "error", has_streams |-> sp.kind = "streams",
     streams |-> [i \in 1..Len(sp.streams) |-> StreamOf(sp.streams[i])]]

SamplePaths == {<<"/", "c", "/", "a", ".", "j", "p", "g">>, <<"/", "c", "/", "d", "/", "e", "/", "a", ".", "j", "p", "g">>, <<"/", "c", "/", "x", "/", "k", ".", "M", "T", "S">>}

SampleIndexFiles == {<<"/", "c", "/", "d", "/", "e", "/", "k", ".", "C", "P", "I">>,
                     <<"/", "c", "/", "d", "/", "e", "/", "k", ".", "c", "p", "i">>,
                     <<"/", "c", "/", "d", "/", "e", "/", "k", ".", "C", "p", "i">>,
                     <<"/", "c", "/", "k", ".", "C", "P", "I">>}

SampleClips == {<<"/", "c", "/", "d", "/", "k", ".", "M", "T", "S">>,
                <<"/", "c", "/", "d", "/", "k", "2", ".", "M", "T", "S">>,
                <<"/", "c", "/", "d", "/", "k", ".", "m", "t", "s">>,
                <<"/", "c", "/", "d", "/", "e", "/", "k", ".", "M", "T", "S">>,
                <<"/", "c", "/", "d", "/", "j", ".", "M", "T", "S">>,
                <<"/", "k", ".", "M", "T", "S">>}

PureInputs ==
    {[fn |-> "classify", done |-> FALSE, path |-> d \o st \o e] :
        d \in SampleDirs, st \in SampleStems, e \in SampleExts}
    \cup {[fn |-> "date", done |-> FALSE, path |-> q, probe |-> sp,
            stat |-> TRUE, ctime |-> c] :
        q \in SamplePaths, sp \in SampleProbes, c \in 1..Len(SampleCTimes)}
    \* a path os.stat fails on: ffmpeg.probe fails on it too
    \cup {[fn |-> "date", done |-> FALSE, path |-> q,
            probe |-> [kind |-> "error", streams |-> <<>>],
            stat |-> FALSE, ctime |-> 1] : q \in SamplePaths}
    \cup {[fn |-> "pair", done |-> FALSE, cpi |-> c, clips |-> cl] :
        c \in SampleIndexFiles, cl \in SUBSET SampleClips}

\* The branch taken for a path and, where it has one, the output file name
ApplyClassify ==
    /\ pure.fn = "classify" /\ ~pure.done
    /\ pure' = [fn |-> "classify", done |-> TRUE, path |-> pure.path,
                cli |-> CliBranch(pure.path), gui |-> GuiBranch(pure.path),
                cli_out |-> OutputFilename(pure.path, CliBranch(pure.path)),
                gui_out |-> GuiOutputFilename(pure.path, GuiBranch(pure.path))]
    /\ UNCHANGED <<runVars, loop>>

\* date_str = get_creation_date(file_path) and the folder it names
ApplyDate ==
    /\ pure.fn = "date" /\ ~pure.done
    /\ LET file == [path |-> pure.path, probe |-> ProbeOf(pure.probe),
                    stat |-> pure.stat,
                    ctime |-> SampleCTimes[pure.ctime].date]
           Result(r) ==
               [fn |-> "date", done |-> TRUE, path |-> pure.path,
                probe |-> pure.probe, stat |-> pure.stat, ctime |-> pure.ctime,
                raised |-> r.raised,
                dir |-> IF r.raised THEN <<>> ELSE DestinationDir(r.date)]
       IN  pure' = Bind(GetCreationDate(file), Result)
    /\ UNCHANGED <<runVars, loop>>

\* video_file = find_associated_video(cpi_file)
ApplyPair ==
    /\ pure.fn = "pair" /\ ~pure.done
    /\ \E video_file \in FindAssociatedVideo(pure.cpi,
                            {[path |-> q] : q \in pure.clips \cup {pure.cpi}}) :
          pure' = [fn |-> "pair", done |-> TRUE, cpi |-> pure.cpi,
                   clips |-> pure.clips, video |-> video_file]
    /\ UNCHANGED <<runVars, loop>>

IdleRun ==
    /\ listing = <<>>
    /\ dest = EmptyDest /\ dirs = {}
    /\ mode = "idle" /\ runs = 0
    /\ files = <<>> /\ idx = 0
    /\ processed_count = 0 /\ skipped_count = 0
    /\ log = <<>> /\ inflight = NoCall /\ signals = <<>>
    /\ dest0 = EmptyDest /\ dirs0 = {}
    /\ prev = NoPrev
    /\ sdest = EmptyDest /\ slog = <<>> /\ failed_at = 0

InitPure == IdleRun /\ pure \in PureInputs /\ loop = LoopIdle

NextPure == ApplyClassify \/ ApplyDate \/ ApplyPair

SpecPure == InitPure /\ [][NextPure]_vars

(***************************************************************************)
(* Worker.run's loop and its signals, over total_files files whose         *)
(* iterations end any way they can                                         *)
(***************************************************************************)
MaxTotal == 50

\* An iteration ends (converted, skipped, failed, unpaired or no branch):
\* processed += 1 and the two emits
LoopStep ==
    /\ loop.pc = "loop" /\ loop.done < loop.total
    /\ loop' = [loop EXCEPT
                  !.done = loop.done + 1,
                  !.signals = loop.signals \o
                      <<[sig |-> "progress", val |-> Progress(loop.done + 1, loop.total)],
                        [sig |-> "message", file |-> loop.done + 1]>>]
    /\ UNCHANGED <<runVars, pure>>

\* An exception leaves the loop body (os.makedirs raises)
LoopFault ==
    /\ loop.pc = "loop" /\ loop.done < loop.total
    /\ loop' = [loop EXCEPT
                  !.pc = "failed",
                  !.signals = loop.signals \o
                      <<[sig |-> "message", file |-> 0],
                        [sig |-> "finished", val |-> FALSE]>>]
    /\ UNCHANGED <<runVars, pure>>

\* The loop is over: finished.emit(True)
LoopFinish ==
    /\ loop.pc = "loop" /\ loop.done = loop.total
    /\ loop' = [loop EXCEPT
                  !.pc = "done",
                  !.signals = Append(loop.signals, [sig |-> "finished", val |-> TRUE])]
    /\ UNCHANGED <<runVars, pure>>

InitProgress ==
    /\ IdleRun /\ pure = PureIdle
    /\ loop \in {[pc |-> "loop", total |-> n, done |-> 0, signals |-> <<>>] :
                    n \in 0..MaxTotal}

NextProgress == LoopStep \/ LoopFault \/ LoopFinish

SpecProgress == InitProgress /\ [][NextProgress]_vars

(***************************************************************************)
(* Properties of the runs                                                  *)
(***************************************************************************)
\* The entry is of a file the loop calls a convert function for
HasJob(e) ==
    \/ e.branch \in {"image", "clip"}
    \/ (e.branch = "index" /\ e.video # None)

\* The step is an iteration of the loop: it appends one entry to the log
Iterates == Len(log') = Len(log) + 1

\* C1: a command-line run that follows a completed command-line run over the
\* same tree, all of whose encoder calls succeeded, invokes the encoder for
\* no file, leaves the destination as it found it, counts nothing as
\* processed and, at its end, has counted as skipped exactly the jobs the
\* first run counted (processed + skipped).
C1_SecondRunSkipsEverything ==
    (mode = "cli" /\ prev.valid /\ prev.allok) =>
        /\ processed_count = 0
        /\ \A i \in 1..Len(log) : ~log[i].invoked
        /\ dest = dest0 /\ dirs = dirs0
        /\ idx = Len(files) => skipped_count = prev.processed + prev.skipped

C1_Witness ==
    /\ mode = "cli" /\ prev.valid /\ prev.allok
    /\ idx = Len(files)
    /\ prev.processed >= 2
    /\ skipped_count >= 2

\* C2: an iteration whose output path already exists when the convert
\* function is called does not invoke the encoder, gets False, leaves the
\* destination (the existing file with it) unchanged and, in the
\* command-line loop, adds one to skipped_count and nothing to
\* processed_count.
C2_ExistingOutputIsSkipped ==
    [][Iterates =>
        LET e == log'[Len(log')]
        IN  (HasJob(e) /\ e.out \in DOMAIN dest) =>
                /\ ~e.invoked /\ ~e.ret
                /\ dest' = dest
                /\ mode = "cli" =>
                      /\ e.counted = "skipped"
                      /\ skipped_count' = skipped_count + 1
                      /\ processed_count' = processed_count]_vars

C2_Witness ==
    /\ mode = "cli"
    /\ \E i \in 1..Len(log) :
          /\ log[i].branch = "clip"
          /\ log[i].existed /\ log[i].before = "complete"
          /\ log[i].counted = "skipped"

\* C3: an encoder call that raises is counted as skipped and not as
\* processed, and every file after the first such failure of a run is
\* handled (encoder invoked or not, counted as processed, skipped or not
\* at all) as in the same run with that call succeeding.
C3_FailureLeavesLaterFilesAsTheyWere ==
    mode = "cli" =>
        /\ \A i \in 1..Len(log) :
              (log[i].invoked /\ log[i].enc # "ok") =>
                  (~log[i].ret /\ log[i].counted = "skipped")
        /\ failed_at > 0 =>
              \A i \in (failed_at + 1)..Len(log) :
                  /\ log[i].invoked = slog[i].invoked
                  /\ log[i].counted = slog[i].counted

\* C4: an iteration for an index file without a clip, or for a file of no
\* recognized extension, writes nothing to the destination and changes
\* neither counter; processed_count + skipped_count is the number of image
\* files, clip files and paired index files handled so far.
C4_UnpairedAndUnrecognizedUncounted ==
    [][/\ mode' = "cli" =>
             processed_count' + skipped_count' =
                 Cardinality({i \in 1..Len(log') : HasJob(log'[i])})
       /\ (Iterates /\ mode = "cli" /\ ~HasJob(log'[Len(log')])) =>
             /\ dest' = dest
             /\ ~log'[Len(log')].invoked
             /\ processed_count' = processed_count
             /\ skipped_count' = skipped_count]_vars

C4_Witness ==
    /\ mode = "cli" /\ idx = Len(files)
    /\ \E i \in 1..Len(log) : log[i].branch = "index" /\ log[i].video = None
    /\ processed_count + skipped_count = 1

\* C9: within one run no output path is the target of the jobs of two
\* different source files.
C9_OutputPathsOfOneRunDiffer ==
    \A i, j \in 1..Len(log) :
        (i # j /\ HasJob(log[i]) /\ HasJob(log[j])) => log[i].out # log[j].out

\* C10: a truncated file stays as it is at its output path; an iteration
\* whose output path holds a truncated file does not invoke the encoder
\* (and counts as skipped in the command-line loop), and the worker never
\* enters an encoder call for a path that holds a file.
C10_TruncatedOutputIsNeverRetried ==
    [][/\ \A q \in DOMAIN dest :
             dest[q] = "truncated" => (q \in DOMAIN dest' /\ dest'[q] = "truncated")
       /\ Iterates =>
             LET e == log'[Len(log')]
             IN  (HasJob(e) /\ e.out \in DOMAIN dest /\ dest[e.out] = "truncated") =>
                     /\ ~e.invoked
                     /\ mode = "cli" => e.counted = "skipped"
       /\ (inflight'.active /\ ~inflight.active) =>
             inflight'.out \notin DOMAIN dest]_vars

C10_Witness ==
    /\ runs >= 2
    /\ \E i \in 1..Len(log) :
          /\ log[i].existed /\ log[i].before = "truncated"
          /\ ~log[i].invoked

(***************************************************************************)
(* Properties of the pure functions                                        *)
(***************************************************************************)
\* The probe's creation timestamp: the first creation_time tag among the
\* streams of a probe that returned them; 0 when there is none
ProbedStamp(sp) ==
    IF sp.kind = "streams" /\ \E i \in 1..Len(sp.streams) : sp.streams[i] > 0
    THEN sp.streams[CHOOSE i \in 1..Len(sp.streams) :
                        /\ sp.streams[i] > 0
                        /\ \A j \in 1..(i - 1) : sp.streams[j] <= 0]
    ELSE 0

\* C5: date resolution does not raise; with a valid creation timestamp from
\* the probe the folder is destination_root/<its date as MM-DD-YYYY>,
\* whatever the file's creation date, and otherwise (the probe errors, there
\* is no tag, the tag is malformed) destination_root/<the file's creation
\* date as MM-DD-YYYY>; the path of the file plays no part.
C5_DateDecidesFolderAndNeverRaises ==
    (pure.fn = "date" /\ pure.done) =>
        /\ ~pure.raised
        /\ pure.dir = destination_root \o <<"/">> \o
              (IF ProbedStamp(pure.probe) > 0 /\ SampleStamps[ProbedStamp(pure.probe)].valid
               THEN SampleStamps[ProbedStamp(pure.probe)].folder
               ELSE SampleCTimes[pure.ctime].folder)

\* c is the letter l in either case, or the same character when l is not a
\* lower-case letter
IsCharOf(c, l) ==
    \/ c = l
    \/ \E k \in 1..Len(LowerChars) : LowerChars[k] = l /\ UpperChars[k] = c

\* The last characters of path spell ext in any letter case
HasExtension(path, ext) ==
    /\ Len(path) >= Len(ext)
    /\ \A i \in 1..Len(ext) : IsCharOf(path[Len(path) - Len(ext) + i], ext[i])

ImageExtensions == {ExtJpg, ExtJpeg, ExtPng, ExtBmp, ExtTiff}

ExpectedCategory(path) ==
    IF \E ext \in ImageExtensions : HasExtension(path, ext) THEN "image"
    ELSE IF HasExtension(path, ExtMts) THEN "clip"
    ELSE IF HasExtension(path, ExtCpi) THEN "index"
    ELSE "none"

\* The characters of path after its last separator
RECURSIVE LastComponent(_)
LastComponent(path) ==
    IF Len(path) = 0 \/ path[Len(path)] = Sep THEN <<>>
    ELSE Append(LastComponent(SubSeq(path, 1, Len(path) - 1)), path[Len(path)])

\* The file name without the extension that classified it, followed by the
\* extension of its output
ExpectedOutput(path) ==
    LET ext == CHOOSE x \in ImageExtensions \cup {ExtMts, ExtCpi} : HasExtension(path, x)
        stem == LastComponent(SubSeq(path, 1, Len(path) - Len(ext)))
    IN  stem \o (IF ext \in ImageExtensions THEN ExtJpg ELSE ExtM2ts)

\* C6: a path ending in .jpg, .jpeg, .png, .bmp or .tiff in any letter case
\* takes the image branch with output <stem>.jpg, one ending in .mts the
\* clip branch and one ending in .cpi the index branch, both with output
\* <stem>.m2ts, and any other path takes no branch; the command-line loop
\* and the worker take the same branch and name the same output.
C6_ClassificationByExtension ==
    (pure.fn = "classify" /\ pure.done) =>
        /\ pure.cli = ExpectedCategory(pure.path)
        /\ pure.gui = pure.cli
        /\ pure.cli # "none" =>
              /\ pure.cli_out = ExpectedOutput(pure.path)
              /\ pure.gui_out = pure.cli_out

C6_Witness ==
    /\ pure.fn = "classify" /\ pure.done
    /\ pure.cli = "image"
    /\ ~EndsWithAny(pure.path, <<ExtJpg, ExtJpeg, ExtPng, ExtBmp, ExtTiff>>)
    /\ Len(pure.cli_out) = 7

\* The order of the characters that occur in file names
CharOrder == <<".", "/">> \o DigitChars \o UpperChars \o LowerChars

CharRank(c) == CHOOSE i \in 1..Len(CharOrder) : CharOrder[i] = c

RECURSIVE LexLess(_, _)
LexLess(a, b) ==
    IF Len(b) = 0 THEN FALSE
    ELSE IF Len(a) = 0 THEN TRUE
    ELSE IF a[1] = b[1] THEN LexLess(Tail(a), Tail(b))
    ELSE CharRank(a[1]) < CharRank(b[1])

\* The clips an index file may be paired to: the files of its
\* parent-of-parent directory whose name starts with the index file's name
\* without its extension and ends in .MTS
Candidates(cpi, clips) ==
    LET name == Basename(cpi)
        base == SubSeq(name, 1, Len(name) - Len(ExtCpi))
    IN  {q \in clips : /\ Dirname(q) = Dirname(Dirname(cpi))
                       /\ StartsWith(Basename(q), base)
                       /\ EndsWith(Basename(q), MtsSuffix)}

\* C7: for an index file (.cpi in any letter case) find_associated_video
\* returns the lexicographically first of the candidate clips, and none
\* exactly when there is no candidate.
C7_PairsWithFirstClip ==
    (pure.fn = "pair" /\ pure.done /\ HasExtension(pure.cpi, ExtCpi)) =>
        LET cands == Candidates(pure.cpi, pure.clips)
        IN  IF cands = {} THEN pure.video = None
            ELSE /\ pure.video \in cands
                 /\ \A q \in cands : ~LexLess(q, pure.video)

\* C8: the k-th iteration of the worker's loop over N files emits the
\* progress value floor(100*k/N) and then a status line naming the k-th
\* file; the values do not decrease, lie within 0..100 and end at 100; a
\* loop that ends emits finished(True) once, after them, and finished(False)
\* is emitted (once, and no finished(True)) only when an exception leaves
\* the loop.
C8_ProgressIsFloorOfPercentage ==
    loop.pc # "off" =>
        /\ \A k \in 1..loop.done :
              /\ loop.signals[2 * k - 1] =
                    [sig |-> "progress", val |-> (100 * k) \div loop.total]
              /\ loop.signals[2 * k] = [sig |-> "message", file |-> k]
        /\ \A k \in 2..loop.done :
              loop.signals[2 * k - 3].val <= loop.signals[2 * k - 1].val
        /\ loop.pc = "loop" => Len(loop.signals) = 2 * loop.done
        /\ loop.pc = "done" =>
              /\ loop.done = loop.total
              /\ Len(loop.signals) = 2 * loop.total + 1
              /\ loop.signals[Len(loop.signals)] = [sig |-> "finished", val |-> TRUE]
              /\ loop.total > 0 => loop.signals[2 * loop.total - 1].val = 100
        /\ loop.pc = "failed" =>
              /\ Len(loop.signals) = 2 * loop.done + 2
              /\ loop.signals[Len(loop.signals)] = [sig |-> "finished", val |-> FALSE]

====
